---- MODULE Spec2Model ----
(***************************************************************************)
(* A model of mongodb_bridge.py: a Flask service that turns authenticated  *)
(* JSON requests into calls on a MongoDB cluster.                          *)
(*                                                                         *)
(* Specification Spec serves requests one after the other: one action per  *)
(* route, each the whole handler (decorator, body, exception clauses).     *)
(* The outcome of every call on the driver (it returns, or it raises) is   *)
(* drawn by the environment and recorded in `log`, the trace of the calls  *)
(* the handler dispatched.  Specification SpecThreaded runs get_client in  *)
(* several request threads, one step per bytecode-level read or write of   *)
(* the global _client.                                                     *)
(***************************************************************************)
EXTENDS Integers, Sequences, FiniteSets, TLC

VARIABLES
    client,       \* the global _client: NoHandle (None), or the number of the MongoClient it holds
    created,      \* how many times MongoClient(MONGO_URI) has been constructed
    coll,         \* the documents of collection d.c, in insertion order
    openConns,    \* direct shard connections opened and not closed (MaxOpen: that many or more)
    phase,        \* "idle", or "responded" while the response of `req` is being returned
    req,          \* the request being answered
    resp,         \* its response: the status and the JSON object
    log,          \* the driver calls the handler dispatched, with their outcomes
    tpc,          \* SpecThreaded: each thread's position in get_client
    tlocal,       \* SpecThreaded: the handle get_client returned to each thread
    calc          \* SpecPure: the helper function being applied, its input and its result

vars == <<client, created, coll, openConns, phase, req, resp, log, tpc, tlocal, calc>>

----------------------------------------------------------------------------
(* Bounds of the model *)

NumShards == 2      \* at most this many records in config.shards
MaxOpen == 1        \* open shard connections are counted up to this many
MaxDocs == 2        \* d.c holds at most this many documents
MaxBatch == 2       \* an insert carries at most this many documents
MaxHosts == 3        \* a shard's host specification lists at most this many hosts
NumThreads == 3     \* request threads of SpecThreaded

----------------------------------------------------------------------------
(* Values *)

None == "None"                     \* Python's None, also an absent JSON field
NoHandle == 0                      \* _client = None (line 87)
API_KEY == "k3y"                   \* the configured key: never empty (line 76-77)
Keys == {None, "", "wrong", API_KEY}

\* A document is the sequence of its field values: <<>> is the empty document {}.
Docs == {<<>>, <<1>>}

AllShardNames == <<"shardA", "shardB", "shardC", "shardD">>
ShardName(i) == AllShardNames[i]
UnknownShard == "unknown"

NoBody == [present |-> FALSE]
NoPath == [shard_id |-> None, db |-> None]

\* A call on the driver: what was called, on which connection, whether it
\* returned ("ok") or raised, and the names it returned or was answered from.
CallD(c, t, o, d) == [call |-> c, target |-> t, outcome |-> o, data |-> d]
Call(c, t, o) == CallD(c, t, o, <<>>)

\* Exceptions: the class the handler's except clauses tell apart, and str(e).
PyMongoError(m) == [cls |-> "PyMongoError", msg |-> m]
OtherError(m) == [cls |-> "Exception", msg |-> m]

----------------------------------------------------------------------------
(* get_client, as one step (Spec): the handle, and whether it was created now *)

get_client_seq(c, n) ==
    IF c = NoHandle THEN [client |-> n + 1, created |-> n + 1]
                ELSE [client |-> c, created |-> n]

\* A decorator that only asks for some key
require_api_key_any(provided_key) == provided_key # None /\ provided_key # ""

(* The decorator: TRUE when the request is let through to the handler *)
require_api_key(provided_key) ==
    ~ (provided_key = None \/ provided_key = "" \/ provided_key # API_KEY)

Unauthorized ==
    [status |-> 401, error |-> <<"Unauthorized - Invalid or missing API key">>]

\* What a handler hands back: the response and the state it leaves.
Out(r, l, cl, co, oc) ==
    [resp |-> r, log |-> l, client |-> cl.client, created |-> cl.created,
     coll |-> co, openConns |-> oc]

\* n more shard connections left open
Opened(n) == IF openConns + n < MaxOpen THEN openConns + n ELSE MaxOpen

\* A handler that has not called get_client
NoClient == [client |-> client, created |-> created]

\* A decorator that looks at the key only after the handler has run
ServeThenCheck(ep, key, path, body, out) ==
    /\ phase' = "responded"
    /\ req' = [ep |-> ep, key |-> key, path |-> path, body |-> body]
    /\ resp' = IF require_api_key(key) THEN out.resp ELSE Unauthorized
    /\ log' = out.log
    /\ client' = out.client
    /\ created' = out.created
    /\ coll' = out.coll
    /\ openConns' = out.openConns
    /\ UNCHANGED <<tpc, tlocal, calc>>

(* A decorated route: the decorator, then the handler's outcome `out` *)
Serve(ep, key, path, body, out) ==
    /\ phase' = "responded"
    /\ req' = [ep |-> ep, key |-> key, path |-> path, body |-> body]
    /\ IF require_api_key(key)
         THEN /\ resp' = out.resp
              /\ log' = out.log
              /\ client' = out.client
              /\ created' = out.created
              /\ coll' = out.coll
              /\ openConns' = out.openConns
         ELSE /\ resp' = Unauthorized
              /\ log' = <<>>
              /\ UNCHANGED <<client, created, coll, openConns>>
    /\ UNCHANGED <<tpc, tlocal, calc>>

\* What the environment may do to a request: nothing is asked of it when the
\* decorator turns the request away.
Env(key, S) == IF require_api_key(key) THEN S ELSE {CHOOSE x \in S : TRUE}

(* GET /: no decorator, static metadata *)
index ==
    /\ phase = "idle"
    /\ \E key \in Keys :
        /\ phase' = "responded"
        /\ req' = [ep |-> "index", key |-> key, path |-> NoPath, body |-> NoBody]
        /\ resp' = [status |-> 200, service |-> "MongoDB HTTP Bridge",
                    state |-> "running", auth_required |-> TRUE]
        /\ log' = <<>>
        /\ UNCHANGED <<client, created, coll, openConns, tpc, tlocal, calc>>

\* No helper function is being applied
NoCalc == [op |-> "none"]

(* The response has been sent: the request-scoped structures are dropped *)
Idle == [ep |-> None, key |-> None, path |-> NoPath, body |-> NoBody]
NoResp == [status |-> 0]

Return ==
    /\ phase = "responded"
    /\ phase' = "idle"
    /\ req' = Idle
    /\ resp' = NoResp
    /\ log' = <<>>
    /\ UNCHANGED <<client, created, coll, openConns, tpc, tlocal, calc>>

----------------------------------------------------------------------------
(* Read-only routes on the primary connection: only PyMongoError is caught *)

\* One driver call whose result the model does not look into.
PrimaryRead(call, outcome) ==
    LET cl == get_client_seq(client, created)
        r  == IF outcome = "ok" THEN [status |-> 200]
              ELSE IF outcome = "PyMongoError"
                   THEN [status |-> 500, error |-> <<"backend failure">>]
                   ELSE [status |-> 500, error |-> <<"Internal Server Error">>]
    IN Out(r, <<Call(call, "primary", outcome)>>, cl, coll, openConns)

ReadOutcomes == {"ok", "PyMongoError"}

list_databases ==
    /\ phase = "idle"
    /\ \E key \in Keys : \E o \in Env(key, ReadOutcomes) :
        Serve("list_databases", key, NoPath, NoBody, PrimaryRead("list_databases", o))

list_collections ==
    /\ phase = "idle"
    /\ \E key \in Keys : \E o \in Env(key, ReadOutcomes) :
        Serve("list_collections", key, [shard_id |-> None, db |-> "d"], NoBody,
              PrimaryRead("list_collection_names", o))

count_documents ==
    /\ phase = "idle"
    /\ \E key \in Keys : \E o \in Env(key, ReadOutcomes) :
        Serve("count_documents", key, [shard_id |-> None, db |-> "d"], NoBody,
              PrimaryRead("estimated_document_count", o))

list_indexes ==
    /\ phase = "idle"
    /\ \E key \in Keys : \E o \in Env(key, ReadOutcomes) :
        Serve("list_indexes", key, [shard_id |-> None, db |-> "d"], NoBody,
              PrimaryRead("list_indexes", o))

----------------------------------------------------------------------------
(* The operation routes: what the body holds, and what the driver does *)

\* A presence test with `is None` in place of truthiness
FalsyNoneOnly(x) == x = None

\* Python truthiness of a name taken from the body: None and "" are falsy.
Falsy(x) == x = None \/ x = ""

\* (database, collection) pairs a body may carry; "a b" is a name the driver
\* refuses: Database() raises InvalidName, a PyMongoError, on a space.
Names == {<<"d", "c">>, <<None, "c">>, <<"", "c">>, <<"d", None>>, <<"d", "">>,
          <<"a b", "c">>, <<None, None>>}
InvalidName(n) == n \in {"", "a b"}

BodyRequired == [status |-> 400, error |-> <<"Request body required">>]
Required(m) == [status |-> 400, error |-> <<m>>]

NoExc == [cls |-> "none", msg |-> ""]

\* The two except clauses every operation route ends with.
Catch(prefix, e) ==
    IF e.cls = "PyMongoError"
      THEN [status |-> 500, error |-> <<e.msg>>]
      ELSE [status |-> 400, error |-> <<prefix, e.msg>>]

\* client[db_name][coll_name]
Subscript(db_name, coll_name) ==
    IF InvalidName(db_name) \/ InvalidName(coll_name)
      THEN PyMongoError("database names cannot contain the character ' '")
      ELSE NoExc

\* A filter (or pipeline, update, command) as the body carries it.
\*   absent        the key is missing: the handler's default applies
\*   all           {}
\*   eq            {"a": 1}: matches the documents equal to val
\*   bad_oid       {"_id": {"$oid": "zz"}}: json_util.loads raises InvalidId
\*   not_mapping   a number where a mapping is due: the driver raises TypeError
\*   bad_operator  {"$foo": 1}: only the server refuses it (OperationFailure)
\*   id0           {"_id": 0}: matches the document whose identifier is 0
Filter(k) == [kind |-> k, val |-> <<1>>]
Filters == {Filter(k) : k \in {"absent", "all", "eq", "bad_oid", "not_mapping",
                               "bad_operator"}}

\* {"_id": 0, "a": 1}: the one document whose identifier the client chose, and
\* chose falsy; every other document is identified by its place.
ZeroIdDoc == <<1, 0>>
IdOf(c, i) == IF c[i] = ZeroIdDoc THEN 0 ELSE i

Matches(doc, f) ==
    \/ f.kind \in {"absent", "all"}
    \/ f.kind = "eq" /\ doc \in {f.val, ZeroIdDoc}
    \/ f.kind = "id0" /\ doc = ZeroIdDoc

\* The exception of parse_json_extended: json_util.loads(json.dumps(data))
DecodeError(x) ==
    IF x.kind = "bad_oid"
      THEN OtherError("'zz' is not a valid ObjectId")
      ELSE NoExc

\* The driver's own argument checks, made before anything is sent.
DriverCheck(x) ==
    IF x.kind = "not_mapping"
      THEN OtherError("must be an instance of dict")
      ELSE NoExc

\* What the server answers to a dispatched operation: o is the state of the
\* connection, and a reachable server refuses an operator it does not know.
ServerAnswer(x, o) ==
    IF o = "fail" THEN PyMongoError("connection refused")
    ELSE IF x.kind \in {"bad_operator", "string"}
      THEN PyMongoError("the server refused the operation")
    ELSE NoExc

Outcome(e) == IF e.cls = "none" THEN "ok" ELSE e.cls

SelectSeq2(s, f) == SelectSeq(s, LAMBDA d : Matches(d, f))

\* cursor.skip(skip).limit(limit), applied when truthy (lines 231-234)
Drop(s, n) == IF n >= Len(s) THEN <<>> ELSE SubSeq(s, n + 1, Len(s))
Take(s, n) == IF n >= Len(s) THEN s ELSE SubSeq(s, 1, n)
AbsentInt == -1       \* the body has no such key: data.get's default applies
DefaultLimit == 100

\* A cursor that cuts to the limit before it skips
PageLimitFirst(s, skip, limit) ==
    LET sk == IF skip = AbsentInt THEN 0 ELSE skip
        li == IF limit = AbsentInt THEN DefaultLimit ELSE limit
        a  == IF li # 0 THEN Take(s, li) ELSE s
    IN IF sk # 0 THEN Drop(a, sk) ELSE a

Page(s, skip, limit) ==
    LET sk == IF skip = AbsentInt THEN 0 ELSE skip
        li == IF limit = AbsentInt THEN DefaultLimit ELSE limit
        a  == IF sk # 0 THEN Drop(s, sk) ELSE s
    IN IF li # 0 THEN Take(a, li) ELSE a

FirstExc(es) ==
    IF \E i \in DOMAIN es : es[i].cls # "none"
      THEN es[CHOOSE i \in DOMAIN es :
                 es[i].cls # "none" /\ \A j \in 1..(i-1) : es[j].cls = "none"]
      ELSE NoExc

(* POST /query *)
query_handler(body, o) ==
    IF ~body.present \/ (body.database = None /\ body.collection = None /\
                         body.filter.kind = "absent" /\ body.limit = AbsentInt /\
                         body.skip = AbsentInt)
      THEN Out(BodyRequired, <<>>, NoClient, coll, openConns)
    ELSE IF Falsy(body.database) \/ Falsy(body.collection)
      THEN Out(Required("database and collection are required"), <<>>, NoClient,
               coll, openConns)
    ELSE
      LET cl   == get_client_seq(client, created)
          pre  == FirstExc(<<Subscript(body.database, body.collection),
                             DecodeError(body.filter),
                             DriverCheck(body.filter)>>)
          ans  == ServerAnswer(body.filter, o)
          docs == Page(SelectSeq2(coll, body.filter), body.skip, body.limit)
      IN IF pre.cls # "none"
           THEN Out(Catch("Query error: ", pre), <<>>, cl, coll, openConns)
         ELSE IF ans.cls # "none"
           THEN Out(Catch("Query error: ", ans),
                    <<Call("find", "primary", Outcome(ans))>>, cl, coll, openConns)
         ELSE Out([status |-> 200, database |-> body.database,
                   collection |-> body.collection, count |-> Len(docs),
                   documents |-> docs],
                  <<Call("find", "primary", "ok")>>, cl, coll, openConns)

Backend == {"ok", "fail"}
OptInts == {AbsentInt, 0, 1}

QueryBodies ==
    {NoBody} \cup
    {[present |-> TRUE, database |-> n[1], collection |-> n[2], filter |-> f,
      limit |-> l, skip |-> s] : n \in Names, f \in Filters, l \in OptInts, s \in OptInts}

query ==
    /\ phase = "idle"
    /\ \E key \in Keys, body \in QueryBodies : \E o \in Env(key, Backend) :
        Serve("query", key, NoPath, body, query_handler(body, o))

(* POST /aggregate *)
aggregate_handler(body, o) ==
    IF ~body.present \/ (body.database = None /\ body.collection = None /\
                         body.pipeline.kind = "absent")
      THEN Out(BodyRequired, <<>>, NoClient, coll, openConns)
    ELSE IF Falsy(body.database) \/ Falsy(body.collection)
      THEN Out(Required("database and collection are required"), <<>>, NoClient,
               coll, openConns)
    ELSE
      LET cl   == get_client_seq(client, created)
          pre  == FirstExc(<<Subscript(body.database, body.collection),
                             DecodeError(body.pipeline),
                             DriverCheck(body.pipeline)>>)
          ans  == ServerAnswer(body.pipeline, o)
          docs == SelectSeq2(coll, body.pipeline)
      IN IF pre.cls # "none"
           THEN Out(Catch("Aggregation error: ", pre), <<>>, cl, coll, openConns)
         ELSE IF ans.cls # "none"
           THEN Out(Catch("Aggregation error: ", ans),
                    <<Call("aggregate", "primary", Outcome(ans))>>, cl, coll, openConns)
         ELSE Out([status |-> 200, database |-> body.database,
                   collection |-> body.collection, count |-> Len(docs),
                   results |-> docs],
                  <<Call("aggregate", "primary", "ok")>>, cl, coll, openConns)

\* A pipeline is [] (absent or given), one $match stage, or malformed like a filter.
AggregateBodies ==
    {NoBody} \cup
    {[present |-> TRUE, database |-> n[1], collection |-> n[2], pipeline |-> f] :
        n \in Names, f \in Filters}

aggregate ==
    /\ phase = "idle"
    /\ \E key \in Keys, body \in AggregateBodies : \E o \in Env(key, Backend) :
        Serve("aggregate", key, NoPath, body, aggregate_handler(body, o))

\* The identifiers of n new documents: a document is identified by its place in
\* the collection.
NewIds(c, n) == [i \in 1..n |-> Len(c) + i]

\* `documents` as the body carries it: kind is absent, dict (items holds the one
\* document), list, bad_oid (a document with an undecodable $oid) or number.
Documents(k, items) == [kind |-> k, items |-> items]
DocLists == UNION {[1..n -> Docs] : n \in 0..MaxBatch}
DocumentsValues ==
    {Documents("absent", <<>>), Documents("bad_oid", <<>>), Documents("number", <<>>)}
    \cup {Documents("dict", <<d>>) : d \in Docs}
    \cup {Documents("list", l) : l \in DocLists}

\* Python's `not documents`: a missing key, an empty dict, an empty list.
FalsyDocuments(x) ==
    \/ x.kind = "absent"
    \/ x.kind = "dict" /\ x.items[1] = <<>>
    \/ x.kind = "list" /\ x.items = <<>>

\* insert_many refuses what is not a list of documents with a TypeError.
InsertCheck(x) ==
    IF x.kind # "list"
      THEN OtherError("documents must be a non-empty list")
      ELSE NoExc

\* if isinstance(documents, dict): documents = [documents]
Normalize(x) == IF x.kind = "dict" THEN Documents("list", <<x.items[1]>>) ELSE x

(* POST /insert *)
insert_handler(body, o) ==
    IF ~body.present \/ (body.database = None /\ body.collection = None /\
                         body.documents.kind = "absent")
      THEN Out(BodyRequired, <<>>, NoClient, coll, openConns)
    ELSE IF Falsy(body.database) \/ Falsy(body.collection)
            \/ FalsyDocuments(body.documents)
      THEN Out(Required("database, collection, and documents are required"), <<>>,
               NoClient, coll, openConns)
    ELSE
      LET cl   == get_client_seq(client, created)
          norm == Normalize(body.documents)
          documents == norm.items
          pre  == FirstExc(<<Subscript(body.database, body.collection),
                             DecodeError(norm), InsertCheck(norm)>>)
          ans  == ServerAnswer(norm, o)
          ids  == NewIds(coll, Len(documents))
      IN IF pre.cls # "none"
           THEN Out(Catch("Insert error: ", pre), <<>>, cl, coll, openConns)
         ELSE IF ans.cls # "none"
           THEN Out(Catch("Insert error: ", ans),
                    <<Call("insert_many", "primary", Outcome(ans))>>, cl, coll,
                    openConns)
         ELSE Out([status |-> 200, database |-> body.database,
                   collection |-> body.collection, inserted_count |-> Len(ids),
                   inserted_ids |-> ids],
                  <<Call("insert_many", "primary", "ok")>>, cl, coll \o documents,
                  openConns)

InsertBodies ==
    {NoBody} \cup
    {[present |-> TRUE, database |-> n[1], collection |-> n[2], documents |-> x] :
        n \in Names, x \in DocumentsValues}

insert ==
    /\ phase = "idle"
    /\ \E key \in Keys, body \in InsertBodies : \E o \in Env(key, Backend) :
        /\ body.present => Len(coll) + Len(body.documents.items) <= MaxDocs
        /\ Serve("insert", key, NoPath, body, insert_handler(body, o))

\* The positions an operation on the matches of f applies to: all of them, or
\* the first (update_one, delete_one).
Targets(c, f, many) ==
    LET m == {i \in DOMAIN c : Matches(c[i], f)}
    IN IF many \/ m = {} THEN m
       ELSE {CHOOSE i \in m : \A j \in m : i <= j}

\* `update` as the body carries it: absent, set ({"$set": {"a": 1}}), plain (a
\* replacement document: update_one raises ValueError), or bad_oid.
Updates == {Filter(k) : k \in {"absent", "set", "plain", "bad_oid"}}
UpdateCheck(x) ==
    IF x.kind = "plain"
      THEN OtherError("update only works with $ operators")
      ELSE NoExc
WriteFilters == {Filter(k) : k \in {"absent", "eq", "id0", "bad_oid", "bad_operator"}}
\* {"$set": {"a": 1}} applied to one document
ApplySet(d) == IF d = ZeroIdDoc THEN d ELSE <<1>>
\* The document an upsert creates from the filter's equalities and the update,
\* and its identifier: the filter's _id when it names one, else a new one.
Upserted(f) == IF f.kind = "id0" THEN ZeroIdDoc ELSE <<1>>
UpsertedId(c, f) == IF f.kind = "id0" THEN 0 ELSE Len(c) + 1

(* POST /update *)
update_handler(body, o) ==
    IF ~body.present
      THEN Out(BodyRequired, <<>>, NoClient, coll, openConns)
    ELSE IF Falsy(body.database) \/ Falsy(body.collection)
            \/ body.update.kind = "absent"
      THEN Out(Required("database, collection, and update are required"), <<>>,
               NoClient, coll, openConns)
    ELSE
      LET cl   == get_client_seq(client, created)
          pre  == FirstExc(<<Subscript(body.database, body.collection),
                             DecodeError(body.filter), DecodeError(body.update),
                             UpdateCheck(body.update)>>)
          ans  == ServerAnswer(body.filter, o)
          call == IF body.many THEN "update_many" ELSE "update_one"
          t    == Targets(coll, body.filter, body.many)
          set  == [i \in DOMAIN coll |-> IF i \in t THEN ApplySet(coll[i]) ELSE coll[i]]
          ups  == t = {} /\ body.upsert
          id   == UpsertedId(coll, body.filter)
          after == IF ups THEN Append(coll, Upserted(body.filter)) ELSE set
          upserted_id == IF ups THEN <<id>> ELSE <<>>
      IN IF pre.cls # "none"
           THEN Out(Catch("Update error: ", pre), <<>>, cl, coll, openConns)
         ELSE IF ans.cls # "none"
           THEN Out(Catch("Update error: ", ans),
                    <<Call(call, "primary", Outcome(ans))>>, cl, coll, openConns)
         ELSE Out([status |-> 200, database |-> body.database,
                   collection |-> body.collection,
                   matched_count |-> Cardinality(t),
                   modified_count |-> Cardinality({i \in t : coll[i] # ApplySet(coll[i])}),
                   \* <<>> is null: the identifier only if it is truthy (line 397)
                   upserted_id |-> IF upserted_id # <<>> /\ upserted_id[1] # 0
                                     THEN upserted_id ELSE <<>>],
                  <<Call(call, "primary", "ok")>>, cl, after, openConns)

UpdateBodies ==
    {NoBody} \cup
    {[present |-> TRUE, database |-> n[1], collection |-> n[2], filter |-> f,
      update |-> u, many |-> m, upsert |-> up] :
        n \in Names, f \in WriteFilters, u \in Updates, m \in BOOLEAN,
        up \in BOOLEAN}

update ==
    /\ phase = "idle"
    /\ \E key \in Keys, body \in UpdateBodies : \E o \in Env(key, Backend) :
        /\ (body.present /\ body.upsert) => Len(coll) < MaxDocs
        /\ Serve("update", key, NoPath, body, update_handler(body, o))

Remove(c, t) ==
    LET keep == {i \in DOMAIN c : i \notin t}
        F[i \in 0..Len(c)] ==
            IF i = 0 THEN <<>>
            ELSE IF i \in keep THEN Append(F[i-1], c[i]) ELSE F[i-1]
    IN F[Len(c)]

(* POST /delete *)
delete_handler(body, o) ==
    IF ~body.present \/ (body.database = None /\ body.collection = None /\
                         body.filter.kind = "absent" /\ ~body.many)
      THEN Out(BodyRequired, <<>>, NoClient, coll, openConns)
    ELSE IF Falsy(body.database) \/ Falsy(body.collection)
      THEN Out(Required("database and collection are required"), <<>>, NoClient,
               coll, openConns)
    ELSE
      LET cl   == get_client_seq(client, created)
          pre  == FirstExc(<<Subscript(body.database, body.collection),
                             DecodeError(body.filter)>>)
          ans  == ServerAnswer(body.filter, o)
          call == IF body.many THEN "delete_many" ELSE "delete_one"
          t    == Targets(coll, body.filter, body.many)
      IN IF pre.cls # "none"
           THEN Out(Catch("Delete error: ", pre), <<>>, cl, coll, openConns)
         ELSE IF ans.cls # "none"
           THEN Out(Catch("Delete error: ", ans),
                    <<Call(call, "primary", Outcome(ans))>>, cl, coll, openConns)
         ELSE Out([status |-> 200, database |-> body.database,
                   collection |-> body.collection,
                   deleted_count |-> Cardinality(t)],
                  <<Call(call, "primary", "ok")>>, cl, Remove(coll, t), openConns)

DeleteBodies ==
    {NoBody} \cup
    {[present |-> TRUE, database |-> n[1], collection |-> n[2], filter |-> f,
      many |-> m] : n \in Names, f \in WriteFilters, m \in BOOLEAN}

delete ==
    /\ phase = "idle"
    /\ \E key \in Keys, body \in DeleteBodies : \E o \in Env(key, Backend) :
        Serve("delete", key, NoPath, body, delete_handler(body, o))

\* `command` as the body carries it: absent, ping, drop ({"drop": "c"}), bad_oid,
\* or bad_operator (a command the server does not know).
Commands == {Filter(k) : k \in {"absent", "ping", "drop", "bad_oid", "bad_operator"}}
AdminDb == "admin"

(* POST /command *)
run_command_handler(body, o) ==
    IF ~body.present \/ (body.database = None /\ body.command.kind = "absent")
      THEN Out(BodyRequired, <<>>, NoClient, coll, openConns)
    ELSE
      LET db_name == IF body.database = None THEN AdminDb ELSE body.database
      IN IF body.command.kind = "absent"
           THEN Out(Required("command is required"), <<>>, NoClient, coll, openConns)
         ELSE
           LET cl   == get_client_seq(client, created)
               pre  == FirstExc(<<Subscript(db_name, "c"), DecodeError(body.command)>>)
               ans  == ServerAnswer(body.command, o)
               after == IF body.command.kind = "drop" /\ db_name = "d"
                          THEN <<>> ELSE coll
           IN IF pre.cls # "none"
                THEN Out(Catch("Command error: ", pre), <<>>, cl, coll, openConns)
              ELSE IF ans.cls # "none"
                THEN Out(Catch("Command error: ", ans),
                         <<Call("command", "primary", Outcome(ans))>>, cl, coll,
                         openConns)
              ELSE Out([status |-> 200, database |-> db_name, result |-> "ok"],
                       <<Call("command", "primary", "ok")>>, cl, after, openConns)

CommandBodies ==
    {NoBody} \cup
    {[present |-> TRUE, database |-> d, command |-> c] :
        d \in {None, "", "d", "a b"}, c \in Commands}

run_command ==
    /\ phase = "idle"
    /\ \E key \in Keys, body \in CommandBodies : \E o \in Env(key, Backend) :
        Serve("command", key, NoPath, body, run_command_handler(body, o))

\* `size` as the body carries it: absent, a number, or a string, which only the
\* server refuses ($sample is checked by the server, not by the driver).
Size(k, n) == [kind |-> k, n |-> n]
Sizes == {Size("absent", 0), Size("int", 1), Size("string", 0)}
DefaultSize == 5

\* The server's random choice of k documents
Samples(c, k) ==
    LET n == IF k < Len(c) THEN k ELSE Len(c)
    IN {[i \in 1..n |-> c[p[i]]] :
           p \in {q \in [1..n -> DOMAIN c] :
                     \A i, j \in 1..n : i # j => q[i] # q[j]}}

(* POST /sample *)
sample_handler(body, o, results) ==
    IF ~body.present \/ (body.database = None /\ body.collection = None /\
                         body.size.kind = "absent")
      THEN Out(BodyRequired, <<>>, NoClient, coll, openConns)
    ELSE IF Falsy(body.database) \/ Falsy(body.collection)
      THEN Out(Required("database and collection are required"), <<>>, NoClient,
               coll, openConns)
    ELSE
      LET cl   == get_client_seq(client, created)
          pre  == Subscript(body.database, body.collection)
          ans  == ServerAnswer(body.size, o)
      IN IF pre.cls # "none"
           THEN Out(Catch("Sample error: ", pre), <<>>, cl, coll, openConns)
         ELSE IF ans.cls # "none"
           THEN Out(Catch("Sample error: ", ans),
                    <<Call("aggregate", "primary", Outcome(ans))>>, cl, coll,
                    openConns)
         ELSE Out([status |-> 200, database |-> body.database,
                   collection |-> body.collection, count |-> Len(results),
                   documents |-> results],
                  <<Call("aggregate", "primary", "ok")>>, cl, coll, openConns)

SampleBodies ==
    {NoBody} \cup
    {[present |-> TRUE, database |-> n[1], collection |-> n[2], size |-> z] :
        n \in Names, z \in Sizes}

sample ==
    /\ phase = "idle"
    /\ \E key \in Keys, body \in SampleBodies : \E o \in Env(key, Backend) :
        \E results \in Env(key, Samples(coll,
                              IF ~body.present \/ body.size.kind # "int"
                                THEN DefaultSize ELSE body.size.n)) :
            Serve("sample", key, NoPath, body, sample_handler(body, o, results))

----------------------------------------------------------------------------
(* The shard directory: config.shards, and a probe of one shard *)

\* The records of config.shards when the cluster has n shards.
ShardHost(i) == "rs/" \o ShardName(i) \o ":27018"
Shards(n) == [i \in 1..n |-> [_id |-> ShardName(i), host |-> ShardHost(i), state |-> 1]]

\* A lookup that forgets its filter
find_one_any(records, shard_id) ==
    IF records # <<>> THEN <<records[1]>> ELSE <<>>

\* config_db["shards"].find_one({"_id": shard_id}): <<>> is None
find_one(records, shard_id) ==
    IF \E i \in DOMAIN records : records[i]._id = shard_id
      THEN <<records[CHOOSE i \in DOMAIN records : records[i]._id = shard_id]>>
      ELSE <<>>

\* What a probe meets: `at` is the call that raises (connect: MongoClient(shard_uri),
\* list: the first listing or the ping, sub: the listing of the collections, close:
\* shard_client.close()) or "ok"; names is what the listing returns when it
\* returns; has_db tells whether the shard holds the database asked for.
Probe(at, names, has_db) == [at |-> at, names |-> names, has_db |-> has_db]

ProbeError(at) ==
    IF at = "connect" THEN "invalid host in shard uri"
    ELSE IF at = "close" THEN "close failed"
    ELSE "server selection timed out"

\* A shard client that was created and whose close() did not complete is left open.
Leaks(at) == IF at \in {"list", "sub", "close"} THEN 1 ELSE 0

\* The calls of one probe, in order, up to the one that raises.  db is the
\* database whose collections are asked for, None when databases are listed.
ProbeLog(sid, pr, listing, db) ==
    LET steps == <<"connect", "list">> \o (IF pr.has_db THEN <<"sub">> ELSE <<>>)
                 \o <<"close">>
        name(st) == IF st = "connect" THEN "MongoClient"
                    ELSE IF st = "list" THEN listing
                    ELSE IF st = "sub" THEN "list_collection_names"
                    ELSE "close"
        data(st) == IF st = "list"
                      THEN IF db = None THEN pr.names
                           ELSE IF pr.has_db THEN <<db>> ELSE <<>>
                    ELSE IF st = "sub" THEN pr.names
                    ELSE <<>>
        last == IF pr.at = "ok" THEN Len(steps)
                ELSE CHOOSE k \in DOMAIN steps : steps[k] = pr.at
    IN [k \in 1..last |->
          IF steps[k] = pr.at
            THEN Call(name(steps[k]), sid, "raise")
            ELSE CallD(name(steps[k]), sid, "ok", data(steps[k]))]

Ids(records) == [i \in DOMAIN records |-> records[i]._id]

Sum(f, n) ==
    LET F[i \in 0..n] == IF i = 0 THEN 0 ELSE F[i-1] + f[i]
    IN F[n]
Flatten(f, n) ==
    LET F[i \in 0..n] == IF i = 0 THEN <<>> ELSE F[i-1] \o f[i]
    IN F[n]
Count(seq, P(_)) == Cardinality({i \in DOMAIN seq : P(seq[i])})

MetaFail == [status |-> 500, error |-> <<"config server unreachable">>]

(* GET /shards *)
shard_info(shard, pr) ==
    [id |-> shard._id, host |-> shard.host, state |-> shard.state,
     online |-> pr.at = "ok",
     error |-> IF pr.at = "ok" THEN None ELSE ProbeError(pr.at)]

list_shards_handler(meta, n, probes) ==
    LET cl == get_client_seq(client, created)
        shards == Shards(n)
    IN IF meta = "fail"
         THEN Out(MetaFail, <<Call("find", "config.shards", "PyMongoError")>>, cl,
                  coll, openConns)
       ELSE
         LET shard_status == [i \in 1..n |-> shard_info(shards[i], probes[i])]
             logs == [i \in 1..n |-> ProbeLog(shards[i]._id, probes[i], "ping", None)]
             leak == [i \in 1..n |-> Leaks(probes[i].at)]
         IN Out([status |-> 200,
                 total_shards |-> Len(shard_status),
                 online_shards |-> Count(shard_status, LAMBDA x : x.online),
                 offline_shards |-> Count(shard_status, LAMBDA x : ~x.online),
                 shards |-> shard_status],
                <<CallD("find", "config.shards", "ok", Ids(shards))>> \o Flatten(logs, n), cl,
                coll, Opened(Sum(leak, n)))

PingProbes == {Probe(at, <<>>, FALSE) : at \in {"ok", "connect", "list", "close"}}
Meta == {"ok", "fail"}

list_shards ==
    /\ phase = "idle"
    /\ \E key \in Keys :
         \E meta \in Env(key, Meta), n \in Env(key, 0..NumShards) :
         \E probes \in Env(key, [1..n -> PingProbes]) :
            LET out == list_shards_handler(meta, n, probes)
            IN Serve("list_shards", key, NoPath, NoBody, out)

\* all_databases: the merged view, in insertion order. One name of one shard:
AddName(all, name, sid) ==
    IF \E k \in DOMAIN all : all[k].name = name
      THEN [k \in DOMAIN all |->
              IF all[k].name = name
                THEN [name |-> name, shards |-> Append(all[k].shards, sid)]
                ELSE all[k]]
      ELSE Append(all, [name |-> name, shards |-> <<sid>>])

\* A merge that keeps only what the first answering shard gave
MergeNamesFirst(all, names, sid) ==
    IF all # <<>> THEN all
    ELSE [k \in DOMAIN names |-> [name |-> names[k], shards |-> <<sid>>]]

\* for db_name in dbs: ... (lines 651-654)
MergeNames(all, names, sid) ==
    LET F[k \in 0..Len(names)] ==
            IF k = 0 THEN all ELSE AddName(F[k-1], names[k], sid)
    IN F[Len(names)]

\* The listing returned: the probe got past list_database_names.
Listed(pr) == pr.at \in {"ok", "close"}

\* The names the config server holds, added when no shard gave them (lines 665-669)
config_dbs == <<"admin", "config", "local">>
AddConfig(all) ==
    LET F[k \in 0..Len(config_dbs)] ==
            IF k = 0 THEN all
            ELSE IF \E j \in DOMAIN F[k-1] : F[k-1][j].name = config_dbs[k]
                   THEN F[k-1]
                   ELSE Append(F[k-1], [name |-> config_dbs[k], shards |-> <<"config">>])
    IN F[Len(config_dbs)]

db_shard_result(shard, pr) ==
    [shard_id |-> shard._id,
     online |-> pr.at = "ok",
     databases |-> IF Listed(pr) THEN pr.names ELSE <<>>,
     error |-> IF pr.at = "ok" THEN None ELSE ProbeError(pr.at)]

(* GET /databases/available *)
list_available_databases_handler(meta, n, probes) ==
    LET cl == get_client_seq(client, created)
        shards == Shards(n)
    IN IF meta = "fail"
         THEN Out(MetaFail, <<Call("find", "config.shards", "PyMongoError")>>, cl,
                  coll, openConns)
       ELSE
         LET shard_results == [i \in 1..n |-> db_shard_result(shards[i], probes[i])]
             merged[i \in 0..n] ==
                 IF i = 0 THEN <<>>
                 ELSE IF Listed(probes[i])
                        THEN MergeNames(merged[i-1], probes[i].names, shards[i]._id)
                        ELSE merged[i-1]
             all_databases == AddConfig(merged[n])
             logs == [i \in 1..n |->
                        ProbeLog(shards[i]._id, probes[i], "list_database_names", None)]
             leak == [i \in 1..n |-> Leaks(probes[i].at)]
         IN Out([status |-> 200,
                 total_shards |-> Len(shards),
                 online_shards |-> Count(shard_results, LAMBDA x : x.online),
                 databases |-> all_databases,
                 shard_details |-> shard_results],
                <<CallD("find", "config.shards", "ok", Ids(shards))>> \o Flatten(logs, n), cl,
                coll, Opened(Sum(leak, n)))

DbLists == {<<>>, <<"app">>, <<"admin", "logs">>}
DbProbes ==
    {Probe(at, <<>>, FALSE) : at \in {"connect", "list"}}
    \cup {Probe(at, l, FALSE) : at \in {"ok", "close"}, l \in DbLists}

list_available_databases ==
    /\ phase = "idle"
    /\ \E key \in Keys :
         \E meta \in Env(key, Meta), n \in Env(key, 0..NumShards) :
         \E probes \in Env(key, [1..n -> DbProbes]) :
            LET out == list_available_databases_handler(meta, n, probes)
            IN Serve("list_available_databases", key, NoPath, NoBody, out)

\* sorted(list(all_collections)): the names in alphabetical order
Alphabet == <<"admin", "app", "c", "config", "local", "logs">>
Sorted(set) == SelectSeq(Alphabet, LAMBDA x : x \in set)
Range(seq) == {seq[i] : i \in DOMAIN seq}

\* The collection listing returned: the database is on the shard and the probe
\* got past list_collection_names.
ListedColls(pr) == pr.has_db /\ pr.at \in {"ok", "close"}

coll_shard_result(shard, pr) ==
    [shard_id |-> shard._id,
     online |-> pr.at = "ok",
     collections |-> IF ListedColls(pr) THEN pr.names ELSE <<>>,
     error |-> IF pr.at = "ok" THEN None ELSE ProbeError(pr.at)]

(* GET /databases/<db>/collections/available *)
list_available_collections_handler(db, meta, n, probes) ==
    LET cl == get_client_seq(client, created)
        shards == Shards(n)
    IN IF meta = "fail"
         THEN Out(MetaFail, <<Call("find", "config.shards", "PyMongoError")>>, cl,
                  coll, openConns)
       ELSE
         LET shard_results == [i \in 1..n |-> coll_shard_result(shards[i], probes[i])]
             all_collections ==
                 UNION {Range(probes[i].names) : i \in {j \in 1..n : ListedColls(probes[j])}}
             logs == [i \in 1..n |->
                        ProbeLog(shards[i]._id, probes[i], "list_database_names", db)]
             leak == [i \in 1..n |-> Leaks(probes[i].at)]
         IN Out([status |-> 200,
                 database |-> db,
                 collections |-> Sorted(all_collections),
                 total_shards |-> Len(shards),
                 online_shards |-> Count(shard_results, LAMBDA x : x.online),
                 shard_details |-> shard_results],
                <<CallD("find", "config.shards", "ok", Ids(shards))>> \o Flatten(logs, n), cl,
                coll, Opened(Sum(leak, n)))

CollLists == {<<"c">>, <<"logs", "c">>}
CollProbes ==
    {Probe(at, <<>>, FALSE) : at \in {"connect", "list", "ok", "close"}}
    \cup {Probe("sub", <<>>, TRUE)}
    \cup {Probe(at, l, TRUE) : at \in {"ok", "close"}, l \in CollLists}

list_available_collections ==
    /\ phase = "idle"
    /\ \E key \in Keys :
         \E meta \in Env(key, Meta), n \in Env(key, 0..NumShards) :
         \E probes \in Env(key, [1..n -> CollProbes]) :
            LET out == list_available_collections_handler("d", meta, n, probes)
            IN Serve("list_available_collections", key,
                        [shard_id |-> None, db |-> "d"], NoBody, out)

----------------------------------------------------------------------------
(* The routes on one named shard *)

NotFound(shard_id) == [status |-> 404, error |-> <<"Shard '", shard_id, "' not found">>]

\* MongoClient(shard_uri) refuses a uri it cannot parse with InvalidURI, close()
\* and the operations fail with the connection: all of them PyMongoError.
ShardError(at) == PyMongoError(ProbeError(at))

\* The documents of d.c a shard may hold: any part of the collection.
Fragments(c) == {Remove(c, t) : t \in SUBSET DOMAIN c}

(* POST /shard/<shard_id>/query *)
query_shard_handler(shard_id, body, meta, n, at, frag) ==
    LET cl == get_client_seq(client, created)
        shard == find_one(Shards(n), shard_id)
        lookup == <<CallD("find_one", "config.shards", "ok", Ids(Shards(n)))>>
        connect == <<Call("MongoClient", shard_id, "ok")>>
    IN IF meta = "fail"
         THEN Out(MetaFail, <<Call("find_one", "config.shards", "PyMongoError")>>,
                  cl, coll, openConns)
       ELSE IF shard = <<>>
         THEN Out(NotFound(shard_id), lookup, cl, coll, openConns)
       ELSE IF at = "connect"
         THEN Out(Catch("Query error: ", ShardError(at)),
                  lookup \o <<Call("MongoClient", shard_id, "raise")>>, cl, coll,
                  openConns)
       ELSE IF ~body.present \/ (body.database = None /\ body.collection = None /\
                                 body.filter.kind = "absent" /\
                                 body.limit = AbsentInt /\ body.skip = AbsentInt)
         THEN Out(BodyRequired, lookup \o connect, cl, coll, Opened(1))
       ELSE IF Falsy(body.database) \/ Falsy(body.collection)
         THEN Out(Required("database and collection are required"),
                  lookup \o connect, cl, coll, Opened(1))
       ELSE
         LET pre  == FirstExc(<<Subscript(body.database, body.collection),
                                DecodeError(body.filter), DriverCheck(body.filter)>>)
             ans  == ServerAnswer(body.filter, IF at = "list" THEN "fail" ELSE "ok")
             docs == Page(SelectSeq2(frag, body.filter), body.skip, body.limit)
             \* the call on the shard's collection, with the documents it holds
             find(o) == <<CallD("find", shard_id, o, frag)>>
         IN IF pre.cls # "none"
              THEN Out(Catch("Query error: ", pre), lookup \o connect, cl, coll,
                       Opened(1))
            ELSE IF ans.cls # "none"
              THEN Out(Catch("Query error: ", ans),
                       lookup \o connect \o find(Outcome(ans)), cl, coll,
                       Opened(1))
            ELSE IF at = "close"
              THEN Out(Catch("Query error: ", ShardError(at)),
                       lookup \o connect \o find("ok")
                         \o <<Call("close", shard_id, "raise")>>,
                       cl, coll, Opened(1))
            ELSE Out([status |-> 200, shard |-> shard_id, database |-> body.database,
                      collection |-> body.collection, count |-> Len(docs),
                      documents |-> docs],
                     lookup \o connect \o find("ok")
                       \o <<Call("close", shard_id, "ok")>>,
                     cl, coll, openConns)

ShardIds == {ShardName(1), UnknownShard}
ShardPath(sid) == [shard_id |-> sid, db |-> None]
ShardFilters == {Filter(k) : k \in {"absent", "eq", "bad_oid", "bad_operator"}}
ShardQueryBodies ==
    {NoBody} \cup
    {[present |-> TRUE, database |-> nm[1], collection |-> nm[2], filter |-> f,
      limit |-> l, skip |-> sk] :
        nm \in Names, f \in ShardFilters, l \in {AbsentInt, 1}, sk \in {AbsentInt, 1}}
Ats == {"ok", "connect", "list", "close"}

query_shard ==
    /\ phase = "idle"
    /\ \E key \in Keys, sid \in ShardIds, body \in ShardQueryBodies :
         \E meta \in Env(key, Meta), n \in Env(key, 0..NumShards), at \in Env(key, Ats) :
         \E frag \in Env(key, IF at = "ok" THEN Fragments(coll) ELSE {<<>>}) :
            LET out == query_shard_handler(sid, body, meta, n, at, frag)
            IN Serve("query_shard", key, ShardPath(sid), body, out)

(* GET /shard/<shard_id>/databases *)
list_shard_databases_handler(shard_id, meta, n, at, names) ==
    LET cl == get_client_seq(client, created)
        shard == find_one(Shards(n), shard_id)
        lookup == <<CallD("find_one", "config.shards", "ok", Ids(Shards(n)))>>
    IN IF meta = "fail"
         THEN Out(MetaFail, <<Call("find_one", "config.shards", "PyMongoError")>>,
                  cl, coll, openConns)
       ELSE IF shard = <<>>
         THEN Out(NotFound(shard_id), lookup, cl, coll, openConns)
       ELSE IF at # "ok"
         THEN Out(Catch("Error: ", ShardError(at)),
                  lookup \o ProbeLog(shard_id, Probe(at, names, FALSE), "list_databases", None), cl,
                  coll, Opened(Leaks(at)))
       ELSE Out([status |-> 200, shard |-> shard_id,
                 databases |-> [k \in DOMAIN names |-> [name |-> names[k]]]],
                lookup \o ProbeLog(shard_id, Probe(at, names, FALSE), "list_databases", None), cl,
                coll, openConns)

list_shard_databases ==
    /\ phase = "idle"
    /\ \E key \in Keys, sid \in ShardIds :
         \E meta \in Env(key, Meta), n \in Env(key, 0..NumShards),
            at \in Env(key, Ats), names \in Env(key, DbLists) :
            LET out == list_shard_databases_handler(sid, meta, n, at, names)
            IN Serve("list_shard_databases", key, ShardPath(sid), NoBody, out)

(* GET /shard/<shard_id>/databases/<db>/collections *)
list_shard_collections_handler(shard_id, db, meta, n, at, names, nostats) ==
    LET cl == get_client_seq(client, created)
        shard == find_one(Shards(n), shard_id)
        lookup == <<CallD("find_one", "config.shards", "ok", Ids(Shards(n)))>>
    IN IF meta = "fail"
         THEN Out(MetaFail, <<Call("find_one", "config.shards", "PyMongoError")>>,
                  cl, coll, openConns)
       ELSE IF shard = <<>>
         THEN Out(NotFound(shard_id), lookup, cl, coll, openConns)
       ELSE IF at # "ok"
         THEN Out(Catch("Error: ", ShardError(at)),
                  lookup \o ProbeLog(shard_id, Probe(at, names, FALSE), "list_collection_names", None),
                  cl, coll, Opened(Leaks(at)))
       ELSE Out([status |-> 200, shard |-> shard_id, database |-> db,
                 \* a collection whose collStats raises is listed by name alone
                 collections |-> [k \in DOMAIN names |->
                                    [name |-> names[k],
                                     stats |-> names[k] \notin nostats]]],
                lookup \o ProbeLog(shard_id, Probe(at, names, FALSE), "list_collection_names", None),
                cl, coll, openConns)

list_shard_collections ==
    /\ phase = "idle"
    /\ \E key \in Keys, sid \in ShardIds :
         \E meta \in Env(key, Meta), n \in Env(key, 0..NumShards),
            at \in Env(key, Ats), names \in Env(key, CollLists) :
         \E nostats \in Env(key, SUBSET Range(names)) :
            LET out == list_shard_collections_handler(sid, "d", meta, n, at, names,
                                                      nostats)
            IN Serve("list_shard_collections", key,
                        [shard_id |-> sid, db |-> "d"], NoBody, out)

----------------------------------------------------------------------------
(* get_client in the request threads of the threaded server (app.run(...,      *)
(* threaded=True)): the test of the global and the assignment to it are        *)
(* separate steps, and a thread may be preempted between them.                 *)

Threads == 1..NumThreads

\* A request that passed the decorator calls get_client()
Enter(t) ==
    /\ tpc[t] = "idle"
    /\ tpc' = [tpc EXCEPT ![t] = "test"]
    /\ UNCHANGED <<client, created, coll, openConns, phase, req, resp, log, tlocal, calc>>

\* if _client is None:
Test(t) ==
    /\ tpc[t] = "test"
    /\ tpc' = [tpc EXCEPT ![t] = IF client = NoHandle THEN "create" ELSE "return"]
    /\ UNCHANGED <<client, created, coll, openConns, phase, req, resp, log, tlocal, calc>>

\* _client = MongoClient(MONGO_URI)
Create(t) ==
    /\ tpc[t] = "create"
    /\ created' = created + 1
    /\ client' = created + 1
    /\ tpc' = [tpc EXCEPT ![t] = "return"]
    /\ UNCHANGED <<coll, openConns, phase, req, resp, log, tlocal, calc>>

\* return _client
GetClientReturn(t) ==
    /\ tpc[t] = "return"
    /\ tlocal' = [tlocal EXCEPT ![t] = client]
    /\ tpc' = [tpc EXCEPT ![t] = "idle"]
    /\ UNCHANGED <<client, created, coll, openConns, phase, req, resp, log, calc>>

NextThreaded ==
    \/ \E t \in Threads : Enter(t)
    \/ \E t \in Threads : Test(t)
    \/ \E t \in Threads : Create(t)
    \/ \E t \in Threads : GetClientReturn(t)

----------------------------------------------------------------------------
(* The extended-JSON helpers, applied to one payload at a time.  A JSON value *)
(* is a record tagged by t; an extended type has several spellings (form)     *)
(* that bson.json_util reads as the same value.                               *)

Num(n) == [t |-> "num", v |-> n]
Str(x) == [t |-> "str", v |-> x]
\* {"$oid": hex}: the digits stand for the 24 of an identifier
JOid(hex) == [t |-> "$oid", hex |-> hex]
\* {"$date": "1970-01-01T00:00:00Z"} (iso), {"$date": {"$numberLong": "0"}}
\* (long), {"$date": 0} (number)
JDate(form, ms) == [t |-> "$date", form |-> form, ms |-> ms]
\* {"$regularExpression": {"pattern": p, "options": o}} (canonical),
\* {"$regex": p, "$options": o} (legacy)
JRegex(form, pattern, options) ==
    [t |-> "regex", form |-> form, pattern |-> pattern, options |-> options]
\* {"$binary": {"base64": b, "subType": "00"}} (canonical),
\* {"$binary": b, "$type": "00"} (legacy)
JBinary(form, base64) == [t |-> "$binary", form |-> form, base64 |-> base64]
\* {key: val}
JDoc(key, val) == [t |-> "doc", key |-> key, val |-> val]

\* bytes.fromhex reads either case; str(ObjectId) writes lower case
Lower(hex) == IF hex = "5F1D" THEN "5f1d" ELSE hex

\* json_util.loads, by its object hook
Loads(j) ==
    CASE j.t = "$oid" -> [t |-> "ObjectId", bytes |-> Lower(j.hex)]
      [] j.t = "$date" -> [t |-> "datetime", ms |-> j.ms]
      [] j.t = "regex" -> [t |-> "Regex", pattern |-> j.pattern, flags |-> j.options]
      [] j.t = "$binary" -> [t |-> "bytes", data |-> j.base64]
      [] OTHER -> j

\* json_util.dumps with the default JSONOptions: LEGACY in PyMongo 3, RELAXED in
\* PyMongo 4; the source pins neither.
JsonModes == {"LEGACY", "RELAXED"}
Dumps(b, mode) ==
    CASE b.t = "ObjectId" -> JOid(b.bytes)
      [] b.t = "datetime" -> JDate(IF mode = "LEGACY" THEN "number" ELSE "iso", b.ms)
      [] b.t = "Regex" ->
            JRegex(IF mode = "LEGACY" THEN "legacy" ELSE "canonical", b.pattern, b.flags)
      [] b.t = "bytes" ->
            JBinary(IF mode = "LEGACY" THEN "legacy" ELSE "canonical", b.data)
      [] OTHER -> b

\* json_util.loads(json.dumps(data)): documents are read inside out
parse_json_extended(data) ==
    IF data.t = "doc"
      THEN IF data.val.t = "doc"
             THEN JDoc(data.key, JDoc(data.val.key, Loads(data.val.val)))
             ELSE JDoc(data.key, Loads(data.val))
      ELSE Loads(data)

\* json.loads(json_util.dumps(data))
serialize_response(data) ==
    IF data.t = "doc"
      THEN IF data.val.t = "doc"
             THEN JDoc(data.key, JDoc(data.val.key, Dumps(data.val.val, calc.mode)))
             ELSE JDoc(data.key, Dumps(data.val, calc.mode))
      ELSE Dumps(data, calc.mode)

Leaves ==
    {Num(1), Str("x"), JOid("5f1d"), JOid("5F1D")}
    \cup {JDate(f, ms) : f \in {"iso", "long", "number"}, ms \in {0, 1}}
    \cup {JRegex(f, "^a", o) : f \in {"canonical", "legacy"}, o \in {"", "i"}}
    \cup {JBinary(f, "AQI=") : f \in {"canonical", "legacy"}}
Payloads ==
    {JDoc(k, l) : k \in {"_id", "a"}, l \in Leaves}
    \cup {JDoc("a", JDoc("$gt", l)) : l \in Leaves}

Decode ==
    /\ calc.op = "codec" /\ calc.stage = "payload"
    /\ calc' = [calc EXCEPT !.stage = "decoded", !.v = parse_json_extended(calc.p)]
    /\ UNCHANGED <<client, created, coll, openConns, phase, req, resp, log, tpc, tlocal>>

Encode ==
    /\ calc.op = "codec" /\ calc.stage = "decoded"
    /\ calc' = [calc EXCEPT !.stage = "encoded", !.v = serialize_response(calc.v)]
    /\ UNCHANGED <<client, created, coll, openConns, phase, req, resp, log, tpc, tlocal>>

CodecInputs ==
    {[op |-> "codec", mode |-> m, p |-> p, stage |-> "payload", v |-> p] :
        m \in JsonModes, p \in Payloads}

----------------------------------------------------------------------------
(* The shard connection string.  A string is a sequence of tokens: the       *)
(* separators "/", ",", "@", ":" and the scheme are tokens of their own.     *)

Contains(str, tok) == \E i \in DOMAIN str : str[i] = tok
IndexOf(str, tok) == CHOOSE i \in DOMAIN str : str[i] = tok /\ \A j \in 1..(i-1) : str[j] # tok
\* str.split(tok)[0], and str.split(tok, 1)[1]
Before(str, tok) == IF Contains(str, tok) THEN SubSeq(str, 1, IndexOf(str, tok) - 1) ELSE str
After(str, tok) == SubSeq(str, IndexOf(str, tok) + 1, Len(str))
\* str.replace(tok, "")
Without(str, tok) == SelectSeq(str, LAMBDA x : x # tok)

\* The host specification of a shard record: "rs/h1,h2" or "h1,h2"
Hosts == {"h1:27018", "h2:27018"}
HostLists == UNION {[1..n -> Hosts] : n \in 1..MaxHosts}
host_str(rs, hs) ==
    LET commas == [i \in 1..(2 * Len(hs) - 1) |->
                      IF i % 2 = 1 THEN hs[(i + 1) \div 2] ELSE ","]
    IN (IF rs = None THEN <<>> ELSE <<rs, "/">>) \o commas

\* MONGO_URI as the environment or the prompts give it: the scheme, the
\* credentials if any, the host, and what follows the host
MainUri(scheme, creds, rest) ==
    <<scheme>> \o (IF creds = <<>> THEN <<>> ELSE creds \o <<"@">>)
        \o <<"primary:27017">> \o rest

\* A derivation that keeps the last host of the list
last_host(spec) ==
    LET hosts == IF Contains(spec, "/") THEN After(spec, "/") ELSE spec
    IN <<hosts[Len(hosts)]>>

\* if "/" in host_str: ... first_host = hosts.split(",")[0]
first_host(spec) ==
    LET hosts == IF Contains(spec, "/") THEN After(spec, "/") ELSE spec
    IN Before(hosts, ",")

\* The six places that build shard_uri: the fan-out routes wait 3000 ms for a
\* server, the routes of one shard 5000 ms.
FanOutPlaces == {"list_shards", "list_available_databases", "list_available_collections"}
Places ==
    FanOutPlaces \cup {"query_shard", "list_shard_databases", "list_shard_collections"}
shard_uri(place, spec, main_uri) ==
    LET timeout == IF place \in FanOutPlaces
                     THEN "&serverSelectionTimeoutMS=3000"
                     ELSE "&serverSelectionTimeoutMS=5000"
        options == <<"/?directConnection=true", timeout>>
    IN IF Contains(main_uri, "@")
         THEN LET creds_part == Without(Before(main_uri, "@"), "mongodb://")
              IN <<"mongodb://">> \o creds_part \o <<"@">> \o first_host(spec)
                     \o options \o <<"&authSource=admin">>
         ELSE <<"mongodb://">> \o first_host(spec) \o options

UriInputs ==
    {[op |-> "uri", place |-> pl, rs |-> rs, hosts |-> hs, scheme |-> sc,
      creds |-> cr, rest |-> rt, stage |-> "record", v |-> <<>>] :
        pl \in Places, rs \in {None, "rs0"}, hs \in HostLists,
        sc \in {"mongodb://", "mongodb+srv://"},
        cr \in {<<>>, <<"user", ":", "pw">>, <<"user", ":", "p", "@", "ss">>},
        rt \in {<<>>, <<"/", "admin">>, <<"/", "?appName=", "a", "@", "b">>}}

BuildShardUri ==
    /\ calc.op = "uri" /\ calc.stage = "record"
    /\ calc' = [calc EXCEPT !.stage = "built",
                  !.v = shard_uri(calc.place, host_str(calc.rs, calc.hosts),
                                  MainUri(calc.scheme, calc.creds, calc.rest))]
    /\ UNCHANGED <<client, created, coll, openConns, phase, req, resp, log, tpc, tlocal>>

----------------------------------------------------------------------------
Init ==
    /\ client = NoHandle
    /\ created = 0
    /\ coll = <<>>
    /\ openConns = 0
    /\ phase = "idle"
    /\ req = Idle
    /\ resp = NoResp
    /\ log = <<>>
    /\ tpc = [t \in Threads |-> "idle"]
    /\ tlocal = [t \in Threads |-> NoHandle]
    /\ calc = NoCalc

Next ==
    \/ index
    \/ list_databases
    \/ list_collections
    \/ count_documents
    \/ list_indexes
    \/ query
    \/ aggregate
    \/ insert
    \/ update
    \/ delete
    \/ run_command
    \/ sample
    \/ list_shards
    \/ list_available_databases
    \/ list_available_collections
    \/ query_shard
    \/ list_shard_databases
    \/ list_shard_collections
    \/ Return

Spec == Init /\ [][Next]_vars

SpecThreaded == Init /\ [][NextThreaded]_vars

\* The helper functions, each applied to every input of its bounded set
InitPure ==
    /\ client = NoHandle /\ created = 0 /\ coll = <<>> /\ openConns = 0
    /\ phase = "idle" /\ req = Idle /\ resp = NoResp /\ log = <<>>
    /\ tpc = [t \in Threads |-> "idle"]
    /\ tlocal = [t \in Threads |-> NoHandle]
    /\ calc \in CodecInputs \cup UriInputs
NextPure ==
    \/ Decode
    \/ Encode
    \/ BuildShardUri
SpecPure == InitPure /\ [][NextPure]_vars

----------------------------------------------------------------------------
(* Properties *)

Responded == phase = "responded"
Answered == phase = "responded" /\ resp.status # 401     \* the handler body ran
BadKey(k) == k = None \/ k = "" \/ k # API_KEY

FanOut == {"list_shards", "list_available_databases", "list_available_collections"}
Merging == {"list_available_databases", "list_available_collections"}
ShardScoped == {"query_shard", "list_shard_databases", "list_shard_collections"}
PrimaryOps == {"query", "aggregate", "insert", "update", "delete", "sample"}

\* The metadata read on the primary connection returned: its data are the
\* identifiers of the shard records.
MetaRead(l) == l # <<>> /\ l[1].target = "config.shards" /\ l[1].outcome = "ok"
RecordIds(l) == Range(l[1].data)

Attempted(sid) ==
    \E k \in DOMAIN log : log[k].call = "MongoClient" /\ log[k].target = sid
Succeeded(sid) ==
    /\ Attempted(sid)
    /\ \A k \in DOMAIN log : log[k].target = sid => log[k].outcome = "ok"
\* The names the shard's listing returned to the handler
ReturnedNames(sid) ==
    LET listing == IF req.ep = "list_available_databases"
                     THEN "list_database_names" ELSE "list_collection_names"
    IN UNION {Range(log[k].data) :
                k \in {j \in DOMAIN log : log[j].target = sid /\ log[j].call = listing}}
MergedNames ==
    IF req.ep = "list_available_databases"
      THEN {resp.databases[k].name : k \in DOMAIN resp.databases}
      ELSE Range(resp.collections)
Entry(sid) ==
    resp.shard_details[CHOOSE k \in DOMAIN resp.shard_details :
                           resp.shard_details[k].shard_id = sid]
EntryData(sid) ==
    IF req.ep = "list_available_databases" THEN Entry(sid).databases
                                           ELSE Entry(sid).collections

\* C1: every decorated route answers 401 to a request whose X-API-Key is absent,
\* empty or not the configured key, whatever the body and the database hold;
\* GET / answers 200 with the static metadata whatever the key.
C1_Unauthorized ==
    Responded =>
        /\ (req.ep = "index" =>
               /\ resp.status = 200
               /\ resp.service = "MongoDB HTTP Bridge"
               /\ resp.state = "running")
        /\ (req.ep # "index" /\ BadKey(req.key) => resp.status = 401)

C1_Witness ==
    /\ Responded
    /\ req.ep = "insert" /\ req.key = "wrong"
    /\ req.body.present /\ req.body.database = "d" /\ req.body.collection = "c"
    /\ req.body.documents.kind = "list" /\ req.body.documents.items # <<>>
    /\ coll # <<>>
    /\ resp.status = 401

\* C2 (as claimed): with two shards, A answering and B failing, the merged list
\* of /databases/available and /databases/<db>/collections/available holds exactly
\* the names A returned, online_shards = 1, offline_shards = 1, and B's entry has
\* an error and no data.
C2_ExactlyOnlineContents ==
    (Responded /\ req.ep \in Merging /\ resp.status = 200) =>
        \A a, b \in RecordIds(log) :
            (Cardinality(RecordIds(log)) = 2 /\ a # b /\ Succeeded(a) /\ ~Succeeded(b)) =>
                /\ MergedNames = ReturnedNames(a)
                /\ resp.online_shards = 1
                /\ "offline_shards" \in DOMAIN resp
                /\ resp.offline_shards = 1
                /\ Entry(b).error # None
                /\ EntryData(b) = <<>>

\* C3: when the read of config.shards succeeds, /shards, /databases/available and
\* /databases/<db>/collections/available answer 200 whatever the probes do, every
\* shard record is probed even after earlier probes failed, and the names of the
\* shards whose probe succeeded are in the merged list.
C3_PartialFailureIsData ==
    (Responded /\ req.ep \in FanOut /\ MetaRead(log)) =>
        /\ resp.status = 200
        /\ \A sid \in RecordIds(log) : Attempted(sid)
        /\ req.ep \in Merging =>
              \A sid \in RecordIds(log) :
                  Succeeded(sid) => ReturnedNames(sid) \subseteq MergedNames

C3_Witness ==
    /\ Responded /\ req.ep = "list_available_databases" /\ MetaRead(log)
    /\ Len(log[1].data) = 2
    /\ ~Succeeded(ShardName(1))
    /\ Succeeded(ShardName(2)) /\ ReturnedNames(ShardName(2)) # {}
    /\ resp.status = 200

\* C4 (as claimed): every successful answer of the three fan-out routes reports
\* total, online and offline shard counts, total being the number of shard records
\* read and the sum of the other two.
C4_ThreeCounts ==
    (Responded /\ req.ep \in FanOut /\ resp.status = 200) =>
        /\ {"total_shards", "online_shards", "offline_shards"} \subseteq DOMAIN resp
        /\ resp.total_shards = Len(log[1].data)
        /\ resp.total_shards = resp.online_shards + resp.offline_shards

\* C5 (as claimed): every shard connection a request opens is closed before its
\* response is returned, so no shard connection is ever left open.
C5_ShardConnectionsClosed ==
    /\ openConns = 0
    /\ Responded =>
          \A k \in DOMAIN log :
              (log[k].call = "MongoClient" /\ log[k].outcome = "ok") =>
                  \E j \in DOMAIN log :
                      /\ j > k /\ log[j].call = "close"
                      /\ log[j].target = log[k].target /\ log[j].outcome = "ok"

\* C6 (as claimed): the primary client is constructed at most once, and every
\* thread is handed the same handle, whatever the interleaving of get_client.
C6_OnePrimaryClient ==
    /\ created <= 1
    /\ \A t, u \in Threads :
          (tlocal[t] # NoHandle /\ tlocal[u] # NoHandle) => tlocal[t] = tlocal[u]

\* C7: on the routes of one shard, when config.shards was read and holds no record
\* with the identifier asked for, the answer is 404, its message holds the
\* identifier, and no shard connection was opened, whatever the body.
C7_UnknownShard ==
    (Responded /\ req.ep \in ShardScoped /\ MetaRead(log)
       /\ req.path.shard_id \notin RecordIds(log)) =>
        /\ resp.status = 404
        /\ req.path.shard_id \in Range(resp.error)
        /\ \A k \in DOMAIN log : log[k].call # "MongoClient"
        /\ Len(log) = 1

C7_Witness ==
    /\ Responded /\ req.ep = "query_shard" /\ MetaRead(log)
    /\ RecordIds(log) # {} /\ req.path.shard_id \notin RecordIds(log)
    /\ ~req.body.present
    /\ resp.status = 404

\* The body has no database, or no collection, that is a non-empty name.
LacksName(b) ==
    \/ ~b.present
    \/ b.database = None \/ b.database = ""
    \/ b.collection = None \/ b.collection = ""

\* The operation value of the body: malformed when it cannot be decoded
\* (bad_oid) or has the wrong type.
WrongKinds == {"bad_oid", "not_mapping", "number", "plain", "string"}
Operand(r) ==
    CASE r.ep \in {"query", "delete"} -> r.body.filter.kind
      [] r.ep = "aggregate" -> r.body.pipeline.kind
      [] r.ep = "insert" -> r.body.documents.kind
      [] r.ep = "update" ->
            IF r.body.update.kind \in WrongKinds \cup {"absent"}
              THEN r.body.update.kind ELSE r.body.filter.kind
      [] r.ep = "command" -> r.body.command.kind
      [] r.ep = "sample" -> r.body.size.kind
MissingField(r) ==
    \/ ~r.body.present
    \/ r.ep # "command" /\ LacksName(r.body)
    \/ r.ep \in {"insert", "update", "command"} /\ Operand(r) = "absent"
Malformed(r) == MissingField(r) \/ Operand(r) \in WrongKinds
BackendRaised == \E k \in DOMAIN log : log[k].outcome = "PyMongoError"

\* C8 (as claimed): on query, aggregate, insert, update, delete, command and
\* sample a database error is answered 500 with its message and a malformed input
\* 400; a malformed input is never answered 500, a backend failure never 400, and
\* the operation is dispatched at most once.
C8_StatusByCause ==
    (Answered /\ req.ep \in PrimaryOps \cup {"command"}) =>
        /\ BackendRaised => (resp.status = 500 /\ resp.error # <<>>)
        /\ Malformed(req) => resp.status = 400
        /\ resp.status = 500 => ~Malformed(req)
        /\ resp.status = 400 => ~BackendRaised
        /\ Len(log) <= 1

\* The /command part of C9: an absent database is "admin", and of the missing
\* fields only an absent command is refused.
C9_Command(r, rs, l, before, after) ==
    (r.ep = "command" /\ r.body.present) =>
        /\ (r.body.command.kind = "absent") =>
              (rs.status = 400 /\ l = <<>> /\ after = before)
        /\ (r.body.database = None /\ r.body.command.kind \in {"ping", "drop"}
              /\ l # <<>> /\ l[1].outcome = "ok") =>
              (rs.status = 200 /\ rs.database = AdminDb)

\* C9 (as claimed): on query, aggregate, insert, update, delete, sample and
\* /shard/<id>/query a body without a non-empty database or collection is answered
\* 400, nothing is dispatched to the database and its contents are unchanged.
C9_NothingDispatched ==
    [][(phase' = "responded" /\ resp'.status # 401) =>
          /\ (req'.ep \in PrimaryOps \cup {"query_shard"} /\ LacksName(req'.body)) =>
                (resp'.status = 400 /\ log' = <<>> /\ coll' = coll)
          /\ C9_Command(req', resp', log', coll, coll')]_vars

\* C9 (amended): on query, aggregate, insert, update, delete and sample such a
\* body is answered 400 before get_client is called: nothing is dispatched, the
\* handle and the contents are as before.  /shard/<id>/query looks at the body
\* only after it read config.shards and created the shard client: the answer is
\* 400 exactly when both succeeded (404 for an unknown shard, 500 otherwise), no
\* operation on the named collection is dispatched and the contents are unchanged.
C9_ValidatedBeforeDispatch ==
    [][(phase' = "responded" /\ resp'.status # 401) =>
          /\ (req'.ep \in PrimaryOps /\ LacksName(req'.body)) =>
                /\ resp'.status = 400
                /\ log' = <<>>
                /\ coll' = coll /\ client' = client /\ created' = created
          /\ (req'.ep = "query_shard" /\ LacksName(req'.body)) =>
                /\ coll' = coll
                /\ \A k \in DOMAIN log' : log'[k].call \in {"find_one", "MongoClient"}
                /\ resp'.status \in {400, 404, 500}
                /\ resp'.status = 400 <=>
                      (Len(log') = 2 /\ log'[2].call = "MongoClient"
                         /\ log'[2].outcome = "ok")
                /\ resp'.status = 404 <=>
                      (MetaRead(log') /\ req'.path.shard_id \notin RecordIds(log'))
          /\ C9_Command(req', resp', log', coll, coll')]_vars

C9_Witness ==
    /\ Responded /\ req.ep = "delete" /\ req.key = API_KEY
    /\ req.body.present /\ req.body.database = "" /\ req.body.collection = "c"
    /\ req.body.filter.kind = "absent" /\ req.body.many
    /\ coll # <<>>
    /\ resp.status = 400

\* C10 (as claimed): /insert with a valid database and collection adds exactly
\* the one document given (inserted_count = 1), or the N documents of the sequence
\* given (inserted_count = N), for every N and every document, the empty document
\* and the empty sequence included; inserted_ids has inserted_count elements.
C10_InsertedCount ==
    [][(phase' = "responded" /\ resp'.status # 401 /\ req'.ep = "insert"
          /\ req'.body.present
          /\ req'.body.database = "d" /\ req'.body.collection = "c"
          /\ req'.body.documents.kind \in {"dict", "list"}
          /\ \A k \in DOMAIN log' : log'[k].outcome = "ok") =>
          /\ resp'.status = 200
          /\ resp'.inserted_count = Len(req'.body.documents.items)
          /\ Len(resp'.inserted_ids) = resp'.inserted_count
          /\ coll' = coll \o req'.body.documents.items]_vars

\* C11 (as claimed): a successful /update with `many` false modifies at most one
\* matching document and with `many` true every matching one; with `upsert` and
\* no match exactly one document is created and upserted_id is its identifier,
\* non-null whatever its value; without `upsert` and no match nothing changes and
\* upserted_id is null.
C11_UpdateContract ==
    [][(phase' = "responded" /\ req'.ep = "update" /\ resp'.status = 200) =>
          LET b == req'.body
              m == {i \in DOMAIN coll : Matches(coll[i], b.filter)}
              changed == {i \in DOMAIN coll : coll'[i] # coll[i]}
          IN /\ ~b.many => (Cardinality(changed) <= 1 /\ changed \subseteq m)
             /\ b.many => \A i \in m : coll'[i] = ApplySet(coll[i])
             /\ m # {} => Len(coll') = Len(coll)
             /\ (b.upsert /\ m = {}) =>
                   /\ Len(coll') = Len(coll) + 1
                   /\ SubSeq(coll', 1, Len(coll)) = coll
                   /\ resp'.upserted_id # <<>>
                   /\ resp'.upserted_id = <<IdOf(coll', Len(coll'))>>
             /\ (~b.upsert /\ m = {}) =>
                   (coll' = coll /\ resp'.upserted_id = <<>>)]_vars

Min(a, b) == IF a < b THEN a ELSE b
Max(a, b) == IF a > b THEN a ELSE b

\* The documents the queried collection holds: the collection itself for
\* /query, the shard's part of it for /shard/<id>/query.
Held(r, l, c) ==
    IF r.ep = "query" THEN c
    ELSE l[CHOOSE k \in DOMAIN l : l[k].call = "find"].data

\* C12: a successful /query or /shard/<id>/query on a collection with M documents
\* matching the filter, skip s >= 0 and limit L > 0 (100 when absent), returns
\* exactly min(L, max(M - s, 0)) documents, `count` is the length of `documents`,
\* and the collection is as it was.
C12_PageSize ==
    [][(phase' = "responded" /\ req'.ep \in {"query", "query_shard"}
          /\ resp'.status = 200) =>
          LET b == req'.body
              held == Held(req', log', coll)
              M == Cardinality({i \in DOMAIN held :
                        \/ b.filter.kind \in {"absent", "all"}
                        \/ b.filter.kind = "eq" /\ held[i] # <<>>})
              s == IF b.skip = AbsentInt THEN 0 ELSE b.skip
              L == IF b.limit = AbsentInt THEN 100 ELSE b.limit
          IN /\ coll' = coll
             /\ resp'.count = Len(resp'.documents)
             /\ (s >= 0 /\ L > 0) =>
                   Len(resp'.documents) = Min(L, Max(M - s, 0))]_vars

\* The limit cuts: two documents match, one is skipped, one is asked for.
C12_Witness ==
    /\ Responded /\ req.ep = "query" /\ resp.status = 200
    /\ req.body.filter.kind = "all" /\ req.body.limit = 1 /\ req.body.skip = 1
    /\ Len(coll) = 2
    /\ resp.count = 1 /\ resp.documents = <<coll[2]>>

\* The merged view as a sequence of names, and the record of contributing shards
\* the view carries for its k-th name: /databases/available gives each name a
\* `shards` list, /databases/<db>/collections/available gives bare names.
MergedSeq ==
    IF req.ep = "list_available_databases"
      THEN [k \in DOMAIN resp.databases |-> resp.databases[k].name]
      ELSE resp.collections
Contributors(k) ==
    IF req.ep = "list_available_databases" THEN resp.databases[k].shards ELSE <<>>
NoRepeat(seq) == \A j, k \in DOMAIN seq : j # k => seq[j] # seq[k]

\* C13 (as claimed): in the merged view of the two merging routes each name
\* appears once, the names are the union of what the shards with a successful
\* probe returned, and each name carries exactly the identifiers of the
\* successful shards that returned it, each once.
C13_MergedView ==
    (Responded /\ req.ep \in Merging /\ resp.status = 200) =>
        LET ok == {sid \in RecordIds(log) : Succeeded(sid)}
        IN /\ NoRepeat(MergedSeq)
           /\ Range(MergedSeq) = UNION {ReturnedNames(sid) : sid \in ok}
           /\ \A k \in DOMAIN MergedSeq :
                 /\ NoRepeat(Contributors(k))
                 /\ Range(Contributors(k)) =
                        {sid \in ok : MergedSeq[k] \in ReturnedNames(sid)}

\* C14 (as claimed): for every valid payload holding extended types (object
\* identifier, date, regular expression, binary),
\* serialize_response(parse_json_extended(p)) = p.
C14_RoundTrip ==
    (calc.op = "codec" /\ calc.stage = "encoded") => calc.v = calc.p

\* What follows the credentials in a shard connection string
HostPart(u) == IF Contains(u, "@") THEN After(u, "@") ELSE Tail(u)

\* C15: for a host specification [rs "/"] h1,...,hn with n >= 1 the shard
\* connection string targets the single host h1 with directConnection enabled,
\* with or without the replica-set prefix, in each of the six places that build it.
C15_FirstHost ==
    (calc.op = "uri" /\ calc.stage = "built") =>
        /\ Len(HostPart(calc.v)) >= 2
        /\ HostPart(calc.v)[1] = calc.hosts[1]
        /\ HostPart(calc.v)[2] = "/?directConnection=true"
        /\ ~Contains(calc.v, ",") /\ ~Contains(calc.v, "rs0")

C15_Witness ==
    /\ calc.op = "uri" /\ calc.stage = "built" /\ calc.place = "query_shard"
    /\ calc.rs = "rs0" /\ calc.hosts = <<"h2:27018", "h1:27018", "h1:27018">>
    /\ HostPart(calc.v)[1] = "h2:27018"

\* C16 (as claimed): the shard connection string carries exactly the user:password
\* of the primary connection string, unmodified, and none when the primary has
\* none, for every shape of the primary string: either scheme, an "@" in the
\* password or only in the options.
C16_Credentials ==
    (calc.op = "uri" /\ calc.stage = "built") =>
        IF calc.creds = <<>>
          THEN ~Contains(calc.v, "@") /\ calc.v[2] = calc.hosts[1]
          ELSE /\ Len(calc.v) >= Len(calc.creds) + 3
               /\ SubSeq(calc.v, 2, Len(calc.creds) + 1) = calc.creds
               /\ calc.v[Len(calc.creds) + 2] = "@"
               /\ calc.v[Len(calc.creds) + 3] = calc.hosts[1]

\* C17: a request answered 401 has no effect: no database call is dispatched, no
\* shard connection is opened, the primary handle is not created, and the
\* contents and the handle are as they were before the request.
C17_RejectedHasNoEffect ==
    [][(phase' = "responded" /\ resp'.status = 401) =>
          /\ log' = <<>>
          /\ coll' = coll
          /\ client' = client /\ created' = created
          /\ openConns' = openConns]_vars

\* The first request ever made is turned away: no handle exists afterwards.
C17_Witness ==
    /\ Responded /\ req.ep = "list_shards" /\ req.key = None
    /\ resp.status = 401
    /\ client = NoHandle /\ created = 0 /\ openConns = 0 /\ log = <<>>

\* The per-shard entries of a fan-out response, and the shard an entry is about
Entries == IF req.ep = "list_shards" THEN resp.shards ELSE resp.shard_details
EntryId(e) == IF req.ep = "list_shards" THEN e.id ELSE e.shard_id
EntryNames(e) ==
    IF req.ep = "list_available_databases" THEN e.databases ELSE e.collections

\* The shard of entry e gave no name to the merged view: no database lists it
\* as a contributor; every collection it returned that is in the view was also
\* returned by a shard that is online.
GaveNoName(e) ==
    IF req.ep = "list_available_databases"
      THEN \A j \in DOMAIN resp.databases : EntryId(e) \notin Range(resp.databases[j].shards)
      ELSE \A name \in ReturnedNames(EntryId(e)) \cap MergedNames :
               \E j \in DOMAIN Entries :
                   Entries[j].online /\ name \in ReturnedNames(EntryId(Entries[j]))

\* C18 (as claimed): a successful fan-out response has exactly one entry per
\* shard record, each shard is probed once, online holds exactly when error is
\* null, and an entry that is not online has no data and gave no name to the
\* merged view, wherever the probe raised: connecting, listing or closing.
C18_EntriesConsistent ==
    (Responded /\ req.ep \in FanOut /\ resp.status = 200) =>
        /\ Len(Entries) = Len(log[1].data)
        /\ \A k \in DOMAIN Entries : EntryId(Entries[k]) = log[1].data[k]
        /\ \A sid \in RecordIds(log) :
              Cardinality({k \in DOMAIN log :
                  log[k].call = "MongoClient" /\ log[k].target = sid}) = 1
        /\ \A k \in DOMAIN Entries :
              /\ Entries[k].online <=> Entries[k].error = None
              /\ (req.ep \in Merging /\ ~Entries[k].online) =>
                    /\ EntryNames(Entries[k]) = <<>>
                    /\ GaveNoName(Entries[k])
====
